---------------------------- MODULE Spec2Model ----------------------------
(***************************************************************************)
(* Model of the requirement compiler and the topping valuation of the      *)
(* topping optimizer (topping_bot/optimize/requirements.py and             *)
(* topping_bot/optimize/toppings.py).                                      *)
(*                                                                         *)
(* Decimal values are modelled as integers.  Set bonuses and modifier      *)
(* values are whole numbers in the source.  Constraint targets are counted *)
(* in units of the smallest game increment.                                *)
(***************************************************************************)
EXTENDS Integers, Sequences, FiniteSets, TLC

VARIABLES
    combo,          \* toppings placed so far, each given by its flavor
    substats,       \* the candidate stats handed to the bound
    document,       \* the requirements document the user wrote
    tmp,            \* the file sanitize wrote: <<>> or <<document>>
    pc,             \* position of the sanitize / from_yaml run
    loaded,         \* from_yaml: the document it loaded, <<>> before
    mods,           \* from_yaml: the accumulated modifier mapping
    cookie_names,   \* from_yaml: names of the cookies gone through so far
    cookies,        \* from_yaml: the Requirements built so far
    error,          \* the exception that ended from_yaml, if any
    req_valid,      \* a Requirements instance: self.valid
    req_biscuit,    \* self.biscuit
    req_objective,  \* self.objective: whether Special, and its bounds
    req_adjusted,   \* self._adjusted_valid: <<>> while the attribute is unset
    req_view,       \* what the last read of self.adjusted_valid returned
    req_pc,         \* "new", "realized", or "failed" when realize raised
    req_cache,      \* the @cache of the accessors: name -> <<>> or <<value>>
    conv_list,      \* a list of converted constraints handed to the collapse
    conv_out,       \* the collapsed list, <<>> before the collapse
    RUNNING_CPU_TASK, \* parallel.RUNNING_CPU_TASK: the user ids it holds
    SEMAPHORE,      \* parallel.SEMAPHORE: its internal value (free slots)
    inv_user,       \* per updateinv/appendinv invocation: the author
    inv_pc,         \* per invocation: where its coroutine stands
    debug_pc        \* the admin's debug command: "idle" or "running"

setVars == <<combo, substats>>

yamlVars == <<document, tmp, pc, loaded, mods, cookie_names, cookies, error>>

reqVars == <<req_valid, req_biscuit, req_objective, req_adjusted, req_view, req_pc,
            req_cache>>

convVars == <<conv_list, conv_out>>

invVars == <<RUNNING_CPU_TASK, SEMAPHORE, inv_user, inv_pc, debug_pc>>

vars == <<combo, substats, document, tmp, pc, loaded, mods, cookie_names,
          cookies, error, req_valid, req_biscuit, req_objective, req_adjusted,
          req_view, req_pc, req_cache, conv_list, conv_out,
          RUNNING_CPU_TASK, SEMAPHORE, inv_user, inv_pc, debug_pc>>

----------------------------------------------------------------------------
(* Generic helpers *)

Max2(a, b) == IF a >= b THEN a ELSE b

Min2(a, b) == IF a <= b THEN a ELSE b

\* max(values, default=0) over a set of non-negative numbers
MaxOf(S) == IF S = {} THEN 0 ELSE CHOOSE x \in S : \A y \in S : y <= x

RECURSIVE SumOver(_, _)
\* sum(f[x] for x in S)
SumOver(S, f) ==
    IF S = {} THEN 0
    ELSE LET x == CHOOSE y \in S : TRUE IN f[x] + SumOver(S \ {x}, f)

SeqRange(s) == {s[i] : i \in DOMAIN s}

Reverse(s) == [i \in 1..Len(s) |-> s[Len(s) + 1 - i]]

\* all sequences over S of length at most n
SeqsUpTo(S, n) == UNION {[1..k -> S] : k \in 0..n}

----------------------------------------------------------------------------
(* toppings.py : the stat catalog *)

\* INFO[flavor]["combos"]: the (required_count, set_bonus) schedule
INFO ==
    [f \in {"DMG Resist", "ATK", "Cooldown", "ATK SPD", "CRIT%", "HP",
            "Amplify Buff", "DEF", "Debuff Resist", "CRIT Resist"} |->
        CASE f = "DMG Resist"    -> << <<2, 3>>,  <<3, 7>>,  <<5, 8>>,  <<6, 10>> >>
          [] f = "ATK"           -> << <<2, 4>>,  <<3, 8>>,  <<5, 10>>, <<6, 12>> >>
          [] f = "Cooldown"      -> << <<2, 2>>,  <<3, 4>>,  <<5, 5>>,  <<6, 6>> >>
          [] f = "ATK SPD"       -> << <<2, 7>>,  <<3, 8>>,  <<5, 10>>, <<6, 12>> >>
          [] f = "CRIT%"         -> << <<2, 4>>,  <<3, 6>>,  <<5, 8>>,  <<6, 10>> >>
          [] f = "HP"            -> << <<2, 4>>,  <<3, 10>>, <<5, 12>>, <<6, 15>> >>
          [] f = "Amplify Buff"  -> << <<2, 9>>,  <<3, 10>>, <<5, 11>>, <<6, 12>> >>
          [] f = "DEF"           -> << <<2, 10>>, <<3, 13>>, <<5, 20>>, <<6, 25>> >>
          [] f = "Debuff Resist" -> << <<2, 10>>, <<3, 11>>, <<5, 12>>, <<6, 13>> >>
          [] f = "CRIT Resist"   -> << <<2, 20>>, <<3, 25>>, <<5, 30>>, <<6, 35>> >>]

\* number of toppings of a complete set ("a collection of five toppings")
SetSize == 5

\* the flavors the modelled inventory holds toppings of
ToppingFlavors == {"DMG Resist", "ATK", "CRIT%"}

\* sum(1 for t in combo if t.flavor == s)
MatchingCount(toppings, s) ==
    Cardinality({i \in DOMAIN toppings : toppings[i] = s})

RECURSIVE FirstSatisfied(_, _)
\* the first (required_count, set_bonus) of `schedule`, scanned front to back,
\* whose required_count is met by `count`; (0, 0) when there is none
FirstSatisfied(schedule, count) ==
    IF schedule = <<>> THEN <<0, 0>>
    ELSE IF count >= Head(schedule)[1] THEN Head(schedule)
    ELSE FirstSatisfied(Tail(schedule), count)

\* a scan of the schedule in its written order, lowest tier first
SetEffectForward(toppings, substat) ==
    FirstSatisfied(INFO[substat], MatchingCount(toppings, substat))

\* ToppingSet.set_effect: scans INFO[substat]["combos"][::-1]
SetEffect(toppings, substat) ==
    FirstSatisfied(Reverse(INFO[substat]), MatchingCount(toppings, substat))

\* the set-bonus part of ToppingSet.value: sum of set_effect(substat)[1]
SetBonusValue(toppings, stats) ==
    SumOver(stats, [s \in stats |-> SetEffect(toppings, s)[2]])

----------------------------------------------------------------------------
(* requirements.py : Requirements.best_possible_set_effect *)

\* best_set_bonuses after the loop over substats: req -> {stat -> bonus}
BestSetBonuses(toppings, stats) ==
    [req \in {2, 3, 5, 6} |->
        [s \in {t \in stats : \E k \in DOMAIN INFO[t] :
                    /\ INFO[t][k][1] = req
                    /\ req <= MatchingCount(toppings, t)} |->
            MaxOf({INFO[s][k][2] : k \in {j \in DOMAIN INFO[s] : INFO[s][j][1] = req}}
                  \cup {0})]]

\* non_match_count is a parameter the body never reads
BestPossibleSetEffect(toppings, stats, non_match_count) ==
    LET best == BestSetBonuses(toppings, stats)
        best_2_3_combo ==
            MaxOf({best[2][s2] + best[3][s3] :
                     <<s2, s3>> \in {p \in (DOMAIN best[2]) \X (DOMAIN best[3]) :
                                        p[1] # p[2]}} \cup {0})
        best_2 == MaxOf({best[2][s] : s \in DOMAIN best[2]})
        best_3 == MaxOf({best[3][s] : s \in DOMAIN best[3]})
        best_5 == MaxOf({best[5][s] : s \in DOMAIN best[5]})
        best_6 == MaxOf({best[6][s] : s \in DOMAIN best[6]})
    IN  MaxOf({best_2_3_combo, best_2, best_3, best_5, best_6})

----------------------------------------------------------------------------
(* requirements.py : the document, sanitize and Requirements.from_yaml *)

\* a key a mapping does not hold (dict.get(...) is None)
NoKey == "<absent>"

\* Type: the values the enum accepts
TypeValues ==
    {"DMG Resist", "ATK", "Cooldown", "ATK SPD", "CRIT%", "HP", "Amplify Buff",
     "DEF", "Debuff Resist", "CRIT Resist", "DARK DMG", "ELEC DMG", "FIRE DMG",
     "EARTH DMG", "POISON DMG", "LIGHT DMG", "CRIT DMG", "ATK MULT", "Combo",
     "E[DMG]", "Vitality", "RNG", "None"}

ModLine(source, value) == [source |-> source, value |-> value]

\* the built-in baseline without the landmark entry of CRIT%
DefaultModifiersBaseOnly ==
    [s \in {"ATK", "CRIT%", "CRIT DMG", "HP"} |->
        CASE s = "ATK"      -> <<ModLine("Base", 100)>>
          [] s = "CRIT%"    -> <<ModLine("Base", 5)>>
          [] s = "CRIT DMG" -> <<ModLine("Base", 150),
                                 ModLine("CRIT DMG Bonus Lab", 20),
                                 ModLine("Chocolate Alter of the Fallen Landmark", 20)>>
          [] s = "HP"       -> <<ModLine("Base", 100)>>]

\* DEFAULT_MODIFIERS: stat -> the (source, value) entries in written order
DEFAULT_MODIFIERS ==
    [s \in {"ATK", "CRIT%", "CRIT DMG", "HP"} |->
        CASE s = "ATK"      -> <<ModLine("Base", 100)>>
          [] s = "CRIT%"    -> <<ModLine("Base", 5),
                                 ModLine("Eerie Haunted House Landmark", 8)>>
          [] s = "CRIT DMG" -> <<ModLine("Base", 150),
                                 ModLine("CRIT DMG Bonus Lab", 20),
                                 ModLine("Chocolate Alter of the Fallen Landmark", 20)>>
          [] s = "HP"       -> <<ModLine("Base", 100)>>]

\* DEFAULT_MODIFIERS.get(Type(substat), {}): the baseline source names of a stat
DefaultSources(stat) ==
    IF stat \in DOMAIN DEFAULT_MODIFIERS
    THEN {DEFAULT_MODIFIERS[stat][i].source : i \in DOMAIN DEFAULT_MODIFIERS[stat]}
    ELSE {}

\* [x for x in lines if keep(x)]
RECURSIVE SelectLines(_, _)
SelectLines(lines, keep) ==
    IF lines = <<>> THEN <<>>
    ELSE IF Head(lines) \in keep
         THEN <<Head(lines)>> \o SelectLines(Tail(lines), keep)
         ELSE SelectLines(Tail(lines), keep)

\* the filter of one stat's declared lines in sanitize
FilterSubstat(stat, lines) ==
    SelectLines(lines, {l \in SeqRange(lines) : l.source \notin DefaultSources(stat)})

\* filtered_mods: the stats whose filtered list is not empty
FilteredMods(modifiers) ==
    [s \in {t \in DOMAIN modifiers : FilterSubstat(t, modifiers[t]) # <<>>} |->
        FilterSubstat(s, modifiers[s])]

\* sanitize, lines 52-59: the filtered mapping replaces the declared one only
\* when it is not empty
SanitizeModifiers(modifiers) ==
    IF DOMAIN FilteredMods(modifiers) # {} THEN FilteredMods(modifiers) ELSE modifiers

\* sanitize, lines 43-50: the legacy objective spelling
SanitizeRequirement(requirement) ==
    IF ~requirement.isstr /\ requirement.max = "E[Vit]"
    THEN [requirement EXCEPT !.max = "Vitality"]
    ELSE requirement

SanitizeCookie(cookie) ==
    [cookie EXCEPT !.requirements =
        [i \in DOMAIN cookie.requirements |-> SanitizeRequirement(cookie.requirements[i])]]

\* sanitize: the document written to the temporary file
SanitizeDoc(doc, rem_leaderboard) ==
    [leaderboard |-> IF rem_leaderboard THEN <<>> ELSE doc.leaderboard,
     cookies     |-> [i \in DOMAIN doc.cookies |-> SanitizeCookie(doc.cookies[i])],
     modifiers   |-> SanitizeModifiers(doc.modifiers)]

\* a stat's value in a defaultdict(Decimal): 0 for a key it does not hold
ModGet(m, stat) == IF stat \in DOMAIN m THEN m[stat] ELSE 0

RECURSIVE OverwriteBuffs(_, _)
\* a variant with "=" in place of "+=": the last line wins
OverwriteBuffs(total, lines) ==
    IF lines = <<>> THEN total
    ELSE OverwriteBuffs(Head(lines).value, Tail(lines))

RECURSIVE AddBuffs(_, _)
\* the "+=" of every line of `lines`, in order, onto `total`
AddBuffs(total, lines) ==
    IF lines = <<>> THEN total
    ELSE AddBuffs(total + Head(lines).value, Tail(lines))

\* from_yaml, lines 113-120: the baseline entries, then the declared lines
AccumulateMods(modifiers) ==
    [s \in (DOMAIN DEFAULT_MODIFIERS) \cup (DOMAIN modifiers) |->
        AddBuffs(AddBuffs(0, IF s \in DOMAIN DEFAULT_MODIFIERS
                             THEN DEFAULT_MODIFIERS[s] ELSE <<>>),
                 IF s \in DOMAIN modifiers THEN modifiers[s] ELSE <<>>)]

\* no exception
NoError == [kind |-> "none", cookie |-> NoKey]

\* an Exception whose message starts with the cookie's name
CookieError(kind, name) == [kind |-> kind, cookie |-> name]

\* an exception raised by a lookup or an enum conversion: no cookie in it
BareError(kind) == [kind |-> kind, cookie |-> NoKey]

\* objective = None
NoObjective == [type |-> NoKey]

\* Normal.parse, Range.parse, Equality.parse, Relative.parse tried in this
\* order on a requirement string; None when no form matches
ParseValidRequirement(line) ==
    CASE line.form = "normal"   -> [kind |-> "Normal", substat |-> line.substat,
                                    op |-> line.op, target |-> line.target]
      [] line.form = "range"    -> [kind |-> "Range", substat |-> line.substat,
                                    low_target |-> line.target,
                                    high_target |-> line.high]
      [] line.form = "equality" -> [kind |-> "Equality", substat |-> line.substat,
                                    target |-> line.target]
      [] line.form = "relative" -> [kind |-> "Relative", substat |-> line.substat,
                                    op |-> line.op, cookie |-> line.cookie]
      [] OTHER                  -> [kind |-> "None"]

\* Equality.parse on a tart or biscuit line
ParseEqualityLine(line) ==
    IF line.form = "equality"
    THEN [kind |-> "Equality", substat |-> line.substat, target |-> line.target]
    ELSE [kind |-> "None"]

\* the deltas of an objective clause added to every key of cookie_mods
AddOverrides(requirement, cookie_mods) ==
    [s \in DOMAIN cookie_mods |-> cookie_mods[s] + ModGet(requirement.overrides, s)]

\* parse_objective_requirement: what cookie_mods holds afterwards
ObjectiveSharedMods(requirement, cookie_mods) ==
    IF requirement.max \in {"E[DMG]", "Vitality"}
    THEN AddOverrides(requirement, cookie_mods)
    ELSE cookie_mods

\* parse_objective_requirement: the objective built, or the exception
ParseObjectiveRequirement(requirement, cookie_mods) ==
    IF requirement.max \notin TypeValues
    THEN [error |-> BareError("ValueError"), objective |-> NoObjective]
    ELSE IF requirement.max = "Combo"
    THEN IF ~requirement.has_substats
         THEN [error |-> BareError("KeyError"), objective |-> NoObjective]
         ELSE IF \E i \in DOMAIN requirement.substats :
                    requirement.substats[i] \notin TypeValues
         THEN [error |-> BareError("ValueError"), objective |-> NoObjective]
         ELSE [error |-> NoError,
               objective |-> [type |-> "Combo", types |-> requirement.substats,
                              mods |-> cookie_mods]]
    ELSE IF requirement.max \in {"E[DMG]", "Vitality"}
    THEN [error |-> NoError,
          objective |-> [type |-> requirement.max,
                         mods |-> AddOverrides(requirement, cookie_mods)]]
    ELSE [error |-> NoError, objective |-> [type |-> requirement.max]]

\* a variant that does not test the Relative target
RelativeTargetUnchecked(valid, names) == FALSE

\* from_yaml, line 138: a Relative constraint whose cookie is not in cookie_names
RelativeTargetUnseen(valid, names) ==
    valid.kind = "Relative" /\ valid.cookie \notin names

\* from_yaml, lines 131-157: one requirement of a cookie
RequirementStep(requirement, name, names, st) ==
    IF requirement.isstr
    THEN LET valid == ParseValidRequirement(requirement) IN
         IF valid.kind = "None"
         THEN [st EXCEPT !.error = CookieError("could not parse", name)]
         ELSE IF RelativeTargetUnseen(valid, names)
         THEN [st EXCEPT !.error = CookieError("relative target", name)]
         ELSE [st EXCEPT !.valid_reqs = Append(@, valid)]
    ELSE IF st.objective.type # NoKey
         THEN [st EXCEPT !.error = CookieError("only one objective", name)]
         ELSE IF requirement.max = NoKey
         THEN [st EXCEPT !.error = CookieError("no max key", name)]
         ELSE LET parsed == ParseObjectiveRequirement(requirement, st.cookie_mods) IN
              IF parsed.error # NoError
              THEN [st EXCEPT !.error = parsed.error]
              ELSE IF parsed.objective.type = "Combo" /\ parsed.objective.types = <<>>
              THEN [st EXCEPT !.error = CookieError("Combo substats", name),
                              !.objective = parsed.objective]
              ELSE [st EXCEPT !.objective = parsed.objective,
                              !.cookie_mods =
                                  ObjectiveSharedMods(requirement, st.cookie_mods)]

RECURSIVE RequirementLoop(_, _, _, _)
\* from_yaml, line 131: the loop over cookie["requirements"], left at the
\* first exception
RequirementLoop(requirements, name, names, st) ==
    IF requirements = <<>> \/ st.error # NoError THEN st
    ELSE RequirementLoop(Tail(requirements), name, names,
                         RequirementStep(Head(requirements), name, names, st))

\* Cookie.get(name).resonant: the default tags of a known cookie
CookieDefaultResonant(name) == <<>>

\* from_yaml, lines 173-187: the tart line
ParseTart(cookie) ==
    IF Len(cookie.tart) > 1
    THEN [error |-> CookieError("only one tart", cookie.name), tart |-> <<>>]
    ELSE IF Len(cookie.tart) = 1
    THEN IF ParseEqualityLine(cookie.tart[1]).kind = "None"
         THEN [error |-> CookieError("could not parse tart", cookie.name), tart |-> <<>>]
         ELSE [error |-> NoError, tart |-> <<ParseEqualityLine(cookie.tart[1])>>]
    ELSE [error |-> NoError, tart |-> <<>>]

\* from_yaml, lines 189-198: the biscuit lines
ParseBiscuit(cookie) ==
    IF \E i \in DOMAIN cookie.biscuit : ParseEqualityLine(cookie.biscuit[i]).kind = "None"
    THEN [error |-> CookieError("could not parse biscuit", cookie.name),
          biscuit |-> <<>>]
    ELSE [error |-> NoError,
          biscuit |-> [i \in DOMAIN cookie.biscuit |->
                          ParseEqualityLine(cookie.biscuit[i])]]

\* from_yaml, lines 167-171: the leaderboard weight (None as the empty tuple)
CookieWeight(doc, name) ==
    IF \E i \in DOMAIN doc.leaderboard :
          doc.leaderboard[i].name = name /\ doc.leaderboard[i].weight # 0
    THEN <<(CHOOSE e \in SeqRange(doc.leaderboard) : e.name = name).weight>>
    ELSE <<>>

\* from_yaml, lines 126-202: the body of the loop over the cookies; the error
\* raised, the names seen and the Requirements built (none on an error)
CompileCookie(doc, cookie, names, doc_mods) ==
    LET st == RequirementLoop(cookie.requirements, cookie.name, names,
                              [valid_reqs |-> <<>>, objective |-> NoObjective,
                               cookie_mods |-> doc_mods, error |-> NoError])
        tart == ParseTart(cookie)
        biscuit == ParseBiscuit(cookie)
        err == IF st.error # NoError THEN st.error
               ELSE IF tart.error # NoError THEN tart.error
               ELSE IF biscuit.error # NoError THEN biscuit.error
               ELSE IF st.objective.type = NoKey
               THEN CookieError("one objective must be specified", cookie.name)
               ELSE NoError
    IN  [error |-> err,
         names |-> IF st.error = NoError THEN names \cup {cookie.name} ELSE names,
         built |-> IF err # NoError THEN <<>>
                   ELSE << [name      |-> cookie.name,
                            valid     |-> st.valid_reqs,
                            objective |-> st.objective,
                            mods      |-> st.cookie_mods,
                            resonance |-> (IF cookie.resonant # <<>>
                                           THEN cookie.resonant
                                           ELSE CookieDefaultResonant(cookie.name))
                                          \o <<"Normal">>,
                            tart      |-> tart.tart,
                            biscuit   |-> biscuit.biscuit,
                            weight    |-> CookieWeight(doc, cookie.name)] >>]


----------------------------------------------------------------------------
(* validity.py : the constraint variants, as far as requirements.py uses them *)

\* the tolerance of fuzz(), in target units
FuzzEps == 1

\* a converted constraint: substat, op.str and target
Bound(substat, op, target) ==
    [kind |-> "Normal", substat |-> substat, op |-> op, target |-> target]

\* valid.convert(cookies=cookie_sets): the ">=" / "<=" constraints of a line.
\* A Range gives its two bounds, an Equality the same target both ways, a
\* Relative the named cookie's value of the stat
Convert(line, cookie_sets) ==
    CASE line.kind = "Range" ->
            <<Bound(line.substat, ">=", line.low_target),
              Bound(line.substat, "<=", line.high_target)>>
      [] line.kind = "Equality" ->
            <<Bound(line.substat, ">=", line.target),
              Bound(line.substat, "<=", line.target)>>
      [] line.kind = "Relative" ->
            <<Bound(line.substat, line.op, cookie_sets[line.cookie])>>
      [] OTHER -> <<line>>

\* valid.fuzz(): the target moved by the tolerance toward looser; a target of
\* zero stays (a floor of zero holds of every set, a ceiling of zero is a
\* hard exclusion)
Fuzz(c) ==
    IF c.target = 0 THEN c
    ELSE IF c.op = ">=" THEN [c EXCEPT !.target = Max2(@ - FuzzEps, 0)]
    ELSE [c EXCEPT !.target = @ + FuzzEps]

\* hash and equality of converted constraints: same stat, same direction
SameKey(a, b) == a.substat = b.substat /\ a.op = b.op

----------------------------------------------------------------------------
(* requirements.py : merged_biscuit, adjusted_valid, realize *)

\* merged_biscuit, lines 290-295: one biscuit line put into the merged dict
MergeBiscuitLine(merged, line) ==
    IF \E i \in DOMAIN merged : merged[i].substat = line.substat
    THEN [i \in DOMAIN merged |->
            IF merged[i].substat = line.substat
            THEN [merged[i] EXCEPT !.target = @ + line.target]
            ELSE merged[i]]
    ELSE Append(merged, line)

RECURSIVE MergeBiscuitLoop(_, _)
MergeBiscuitLoop(merged, lines) ==
    IF lines = <<>> THEN merged
    ELSE MergeBiscuitLoop(MergeBiscuitLine(merged, Head(lines)), Tail(lines))

\* Requirements.merged_biscuit (None as the empty list)
MergedBiscuit(biscuit) == MergeBiscuitLoop(<<>>, biscuit)

\* adjusted_valid, line 307: one line put into the dict keyed by substat.name
PutBySubstat(entries, line) ==
    IF \E i \in DOMAIN entries : entries[i].substat = line.substat
    THEN [i \in DOMAIN entries |->
            IF entries[i].substat = line.substat THEN line ELSE entries[i]]
    ELSE Append(entries, line)

RECURSIVE ValidBySubstat(_, _)
\* adjusted_valid, line 307: {line.substat.name: deepcopy(line) for line in valid}
ValidBySubstat(entries, lines) ==
    IF lines = <<>> THEN entries
    ELSE ValidBySubstat(PutBySubstat(entries, Head(lines)), Tail(lines))

\* adjusted_valid, lines 317-332: one entry offset by a biscuit value
OffsetLine(line, biscuit_line_value) ==
    CASE line.kind = "Range" ->
            [line EXCEPT !.low_target = Max2(@ - biscuit_line_value, 0),
                         !.high_target = Max2(@ - biscuit_line_value, 0)]
      [] line.kind \in {"Equality", "Normal"} ->
            [line EXCEPT !.target = Max2(@ - biscuit_line_value, 0)]
      [] OTHER -> line

\* adjusted_valid, lines 309-332: every merged biscuit line applied
OffsetByBiscuit(entries, merged) ==
    [i \in DOMAIN entries |->
        IF \E j \in DOMAIN merged : merged[j].substat = entries[i].substat
        THEN OffsetLine(entries[i],
                        (CHOOSE m \in SeqRange(merged) :
                            m.substat = entries[i].substat).target)
        ELSE entries[i]]

\* the adjusted_valid property, lines 300-333
AdjustedValid(attr, valid_lines, biscuit) ==
    IF attr # <<>> THEN attr[1]
    ELSE OffsetByBiscuit(ValidBySubstat(<<>>, valid_lines), MergedBiscuit(biscuit))

RECURSIVE ConvertAll(_, _)
\* realize, lines 244-245
ConvertAll(lines, cookie_sets) ==
    IF lines = <<>> THEN <<>>
    ELSE Convert(Head(lines), cookie_sets) \o ConvertAll(Tail(lines), cookie_sets)

\* the looser of two constraints of one key: min for ">=", max for "<="
ExtremeSwapped(kept, new) ==
    IF new.op = ">="
    THEN (IF new.target < kept.target THEN new ELSE kept)
    ELSE (IF new.target > kept.target THEN new ELSE kept)

\* realize, lines 252-253: max by target for ">=", min by target otherwise;
\* on a tie the entry already kept stays
Extreme(kept, new) ==
    IF new.op = ">="
    THEN (IF new.target > kept.target THEN new ELSE kept)
    ELSE (IF new.target < kept.target THEN new ELSE kept)

\* realize, lines 251-255: one constraint put into `collapsed`
CollapseInsert(entries, c) ==
    IF \E i \in DOMAIN entries : SameKey(entries[i], c)
    THEN [i \in DOMAIN entries |->
            IF SameKey(entries[i], c) THEN Extreme(entries[i], c) ELSE entries[i]]
    ELSE Append(entries, c)

RECURSIVE CollapseLoop(_, _)
\* realize, lines 247-255: fuzz, then insert, each constraint in turn
CollapseLoop(entries, lines) ==
    IF lines = <<>> THEN entries
    ELSE CollapseLoop(CollapseInsert(entries, Fuzz(Head(lines))), Tail(lines))

RECURSIVE CollapseOnly(_, _)
\* the insertions of lines 251-255 alone, on constraints fuzzed already
CollapseOnly(entries, lines) ==
    IF lines = <<>> THEN entries
    ELSE CollapseOnly(CollapseInsert(entries, Head(lines)), Tail(lines))

\* realize, lines 259-264: some stat's "<=" target below its ">=" target
Contradiction(entries) ==
    \E i, j \in DOMAIN entries :
        /\ entries[i].substat = entries[j].substat
        /\ entries[i].op = ">="
        /\ entries[j].op = "<="
        /\ entries[j].target < entries[i].target

\* floor_reqs()
FloorReqs(entries) == SelectLines(entries, {c \in SeqRange(entries) : c.op = ">="})

\* ceiling_reqs()
CeilingReqs(entries) ==
    SelectLines(entries, {c \in SeqRange(entries) : c.op = "<=" /\ c.target # 0})

\* zero_reqs()
ZeroReqs(entries) ==
    SelectLines(entries, {c \in SeqRange(entries) : c.op = "<=" /\ c.target = 0})

RECURSIVE TightenMin(_, _)
\* realize, lines 271-275; bounds are kept times 100, in target units
TightenMin(bounds, reqs) ==
    IF reqs = <<>> THEN bounds
    ELSE TightenMin(IF Head(reqs).substat \in DOMAIN bounds
                    THEN [bounds EXCEPT ![Head(reqs).substat].min =
                                            Min2(@, Head(reqs).target)]
                    ELSE bounds,
                    Tail(reqs))

RECURSIVE TightenMax(_, _)
\* realize, lines 276-280
TightenMax(bounds, reqs) ==
    IF reqs = <<>> THEN bounds
    ELSE TightenMax(IF Head(reqs).substat \in DOMAIN bounds
                    THEN [bounds EXCEPT ![Head(reqs).substat].max =
                                            Min2(@, Head(reqs).target)]
                    ELSE bounds,
                    Tail(reqs))

\* floor(substat), lines 350-355: the target of the first ">=" on the stat
Floor(entries, substat) ==
    LET hits == {i \in DOMAIN entries :
                    entries[i].substat = substat /\ entries[i].op = ">="}
    IN  IF hits = {} THEN 0
        ELSE entries[CHOOSE i \in hits : \A j \in hits : i <= j].target

\* the stats floor() is asked about
FloorStats == {"ATK"}

\* the memoized calls: the accessor, and the argument of floor
AccessorCalls ==
    {<<"floor_reqs">>, <<"ceiling_reqs">>, <<"zero_reqs">>} \cup
    {<<"floor", substat>> : substat \in FloorStats}

\* the body of an accessor, evaluated on a value of adjusted_valid
AccessorBody(call, entries) ==
    CASE call[1] = "floor_reqs" -> FloorReqs(entries)
      [] call[1] = "ceiling_reqs" -> CeilingReqs(entries)
      [] call[1] = "zero_reqs" -> ZeroReqs(entries)
      [] OTHER -> Floor(entries, call[2])

\* @cache: the stored result of an earlier call, else the body
Cached(cache, call, entries) ==
    IF cache[call] # <<>> THEN cache[call][1] ELSE AccessorBody(call, entries)

\* the cache after a call
Remember(cache, call, value) == [cache EXCEPT ![call] = <<value>>]

\* a cache no call has filled
EmptyCache == [call \in AccessorCalls |-> <<>>]

\* realize, lines 269-280, on what floor_reqs() and ceiling_reqs() returned
TightenBounds(objective, floor_reqs, ceiling_reqs) ==
    IF objective.special
    THEN [objective EXCEPT !.bounds =
            TightenMax(TightenMin(@, floor_reqs), ceiling_reqs)]
    ELSE objective

----------------------------------------------------------------------------
(* The documents the model compiles *)

\* most declared lines under one stat of the modifiers section
MaxBuffs == 2

\* most cookies in a document
MaxCookies == 2

StrLine(form, substat, op, target, high, cookie) ==
    [isstr |-> TRUE, form |-> form, substat |-> substat, op |-> op,
     target |-> target, high |-> high, cookie |-> cookie]

DictLine(max, has_substats, objective_substats, overrides) ==
    [isstr |-> FALSE, max |-> max, has_substats |-> has_substats,
     substats |-> objective_substats, overrides |-> overrides]

CookieBlock(name, requirements) ==
    [name |-> name, requirements |-> requirements, resonant |-> <<>>,
     tart |-> <<>>, biscuit |-> <<>>]

NoOverrides == [s \in {} |-> 0]

\* max: Combo with substats [ATK, CRIT%]
ObjCombo == DictLine("Combo", TRUE, <<"ATK", "CRIT%">>, NoOverrides)

\* max: E[DMG] with the deltas ATK: 50 and FIRE DMG: 20
ObjEDMG ==
    DictLine("E[DMG]", FALSE, <<>>,
             [s \in {"ATK", "FIRE DMG"} |-> IF s = "ATK" THEN 50 ELSE 20])

\* max: E[Vit] (the legacy spelling of Vitality) with the delta CRIT%: 3
ObjEVit == DictLine("E[Vit]", FALSE, <<>>, [s \in {"CRIT%"} |-> 3])

\* max: ATK
ObjSingle == DictLine("ATK", FALSE, <<>>, NoOverrides)

\* stats the modifiers section may declare: one with a baseline, one without
DocStats == {"ATK", "ATK SPD"}

\* the declared lines: one repeats a baseline source name, one does not
DeclaredLines == {ModLine("Base", 100), ModLine("Guild Buff", 10)}

ModifierMaps ==
    UNION {[D -> SeqsUpTo(DeclaredLines, MaxBuffs) \ {<<>>}] : D \in SUBSET DocStats}

CookieNameAt(i) == CASE i = 1 -> "A" [] i = 2 -> "B" [] i = 3 -> "C" [] OTHER -> "D"

Leaderboard == <<[name |-> "A", weight |-> 3]>>

\* documents that vary the modifiers section and the objectives
ModDocs ==
    {[leaderboard |-> Leaderboard,
      modifiers   |-> m,
      cookies     |-> [i \in DOMAIN objs |-> CookieBlock(CookieNameAt(i), <<objs[i]>>)]] :
        m \in ModifierMaps,
        objs \in SeqsUpTo({ObjCombo, ObjEDMG, ObjEVit, ObjSingle}, MaxCookies)}

\* "ATK >= 50"
LineMin == StrLine("normal", "ATK", ">=", 50, 0, NoKey)

\* a line relating ATK to the ATK of the cookie named `name`
LineRel(name) == StrLine("relative", "ATK", ">=", 0, 0, name)

\* a line none of the four forms matches
LineBad == StrLine("bad", NoKey, NoKey, 0, 0, NoKey)

\* max: Combo without the substats key
ObjComboNoKey == DictLine("Combo", FALSE, <<>>, NoOverrides)

\* max: Combo with an empty substats list
ObjComboEmpty == DictLine("Combo", TRUE, <<>>, NoOverrides)

\* the requirement lists of the cookies of RefDocs
RefRequirements ==
    {<<ObjSingle>>,
     <<LineMin, ObjSingle>>,
     <<LineRel("A"), ObjSingle>>,
     <<ObjSingle, LineRel("B")>>,
     <<LineRel("Z"), LineMin, ObjSingle>>,
     <<LineBad, LineRel("B"), ObjSingle>>,
     <<ObjComboNoKey, LineRel("A")>>,
     <<LineMin>>,
     <<ObjSingle, ObjCombo>>,
     <<ObjComboEmpty>>,
     <<ObjComboNoKey, ObjSingle>>}

\* documents that vary the cookies, their names and their order
RefDocs ==
    {[leaderboard |-> Leaderboard,
      modifiers   |-> [s \in {} |-> <<>>],
      cookies     |-> blocks] :
        blocks \in SeqsUpTo({CookieBlock(n, r) : n \in {"A", "B"}, r \in RefRequirements},
                            MaxCookies)}

----------------------------------------------------------------------------
(* The Requirements instances and constraint lists the model realizes *)

\* most validity lines of a cookie
MaxValid == 2

\* most biscuit lines of a cookie
MaxBiscuit == 2

\* most converted constraints in a list handed to the collapse
MaxConverted == 3

ReqStats == {"ATK", "CRIT%"}

RangeLine(substat, low, high) ==
    [kind |-> "Range", substat |-> substat, low_target |-> low, high_target |-> high]

EqualityLine(substat, target) ==
    [kind |-> "Equality", substat |-> substat, target |-> target]

RelativeLine(substat, op, cookie) ==
    [kind |-> "Relative", substat |-> substat, op |-> op, cookie |-> cookie]

\* the validity lines a cookie may hold, per stat
ValidLines ==
    UNION {{Bound(st, ">=", 50), Bound(st, "<=", 30), Bound(st, ">=", 30),
            Bound(st, "<=", 50), RangeLine(st, 30, 50), RangeLine(st, 50, 30),
            EqualityLine(st, 30), RelativeLine(st, ">=", "A")} : st \in ReqStats}

\* the biscuit lines a cookie may hold
BiscuitLines == {EqualityLine(st, 20) : st \in ReqStats}

\* a plain objective, and a Special one with bounds on CRIT% (times 100)
Objectives ==
    {[special |-> FALSE, bounds |-> <<>>],
     [special |-> TRUE,
      bounds |-> [st \in {"CRIT%"} |-> [min |-> 40, max |-> 100]]]}

\* cookie_sets: the solved value of the stat of each cookie named by a Relative
CookieSets == {[c \in {"A"} |-> 40]}

\* the converted constraints a list may hold
ConvertedConstraints ==
    {Bound(st, op, t) : st \in ReqStats, op \in {">=", "<="}, t \in {0, 30, 50}}

IdleReq ==
    /\ req_valid = <<>>
    /\ req_biscuit = <<>>
    /\ req_objective = [special |-> FALSE, bounds |-> <<>>]
    /\ req_adjusted = <<>>
    /\ req_view = <<>>
    /\ req_pc = "idle"
    /\ req_cache = EmptyCache

IdleConv ==
    /\ conv_list = <<>>
    /\ conv_out = <<>>

IdleInv ==
    /\ RUNNING_CPU_TASK = {}
    /\ SEMAPHORE = 0
    /\ inv_user = <<>>
    /\ inv_pc = <<>>
    /\ debug_pc = "idle"

----------------------------------------------------------------------------
(* sanitize and from_yaml as steps *)

IdleYaml ==
    /\ document = <<>>
    /\ tmp = <<>>
    /\ pc = "idle"
    /\ loaded = <<>>
    /\ mods = <<>>
    /\ cookie_names = {}
    /\ cookies = <<>>
    /\ error = NoError

InitYaml(docs) ==
    /\ document \in docs
    /\ tmp = <<>>
    /\ pc = "start"
    /\ loaded = <<>>
    /\ mods = <<>>
    /\ cookie_names = {}
    /\ cookies = <<>>
    /\ error = NoError

\* sanitize(requirements_fp, user_id, rem_leaderboard)
Sanitize ==
    /\ pc = "start"
    /\ \E rem_leaderboard \in BOOLEAN :
          tmp' = <<SanitizeDoc(document, rem_leaderboard)>>
    /\ pc' = "sanitized"
    /\ UNCHANGED <<document, loaded, mods, cookie_names, cookies, error>>
    /\ UNCHANGED <<setVars, reqVars, convVars, invVars>>

\* from_yaml, lines 110-123: load the file, build mods
LoadModifiers ==
    /\ pc \in {"start", "sanitized"}
    /\ LET doc == IF pc = "sanitized" THEN tmp[1] ELSE document IN
          /\ loaded' = <<doc>>
          /\ mods' = AccumulateMods(doc.modifiers)
    /\ cookie_names' = {}
    /\ cookies' = <<>>
    /\ pc' = "cookies"
    /\ UNCHANGED <<document, tmp, error>>
    /\ UNCHANGED <<setVars, reqVars, convVars, invVars>>

\* from_yaml, lines 125-202: one pass of the loop over the cookies
CompileNextCookie ==
    /\ pc = "cookies"
    /\ Len(cookies) < Len(loaded[1].cookies)
    /\ LET out == CompileCookie(loaded[1], loaded[1].cookies[Len(cookies) + 1],
                                cookie_names, mods) IN
          /\ error' = out.error
          /\ cookie_names' = out.names
          /\ cookies' = cookies \o out.built
          /\ pc' = IF out.error # NoError THEN "raised" ELSE "cookies"
    /\ UNCHANGED <<document, tmp, loaded, mods>>
    /\ UNCHANGED <<setVars, reqVars, convVars, invVars>>

\* from_yaml, line 203: return cookies
ReturnCookies ==
    /\ pc = "cookies"
    /\ Len(cookies) = Len(loaded[1].cookies)
    /\ pc' = "done"
    /\ UNCHANGED <<document, tmp, loaded, mods, cookie_names, cookies, error>>
    /\ UNCHANGED <<setVars, reqVars, convVars, invVars>>

NextYaml ==
    \/ Sanitize
    \/ LoadModifiers
    \/ CompileNextCookie
    \/ ReturnCookies

IdleSet == combo = <<>> /\ substats = {}

Init == InitYaml(ModDocs) /\ IdleSet /\ IdleReq /\ IdleConv /\ IdleInv

Spec == Init /\ [][NextYaml]_vars

InitRefs == InitYaml(RefDocs) /\ IdleSet /\ IdleReq /\ IdleConv /\ IdleInv

SpecRefs == InitRefs /\ [][NextYaml]_vars

----------------------------------------------------------------------------
(* The search places toppings one at a time into a set of five *)

InitSet ==
    /\ combo = <<>>
    /\ substats \in (SUBSET ToppingFlavors) \ {{}}
    /\ IdleYaml
    /\ IdleReq
    /\ IdleConv
    /\ IdleInv

PlaceTopping ==
    /\ Len(combo) < SetSize
    /\ \E f \in ToppingFlavors : combo' = Append(combo, f)
    /\ UNCHANGED substats
    /\ UNCHANGED <<yamlVars, reqVars, convVars, invVars>>

NextSet == PlaceTopping

SpecSet == InitSet /\ [][NextSet]_vars

----------------------------------------------------------------------------
(* A Requirements instance: reads of adjusted_valid, then realize *)

InitReq ==
    /\ req_valid \in SeqsUpTo(ValidLines, MaxValid)
    /\ req_biscuit \in SeqsUpTo(BiscuitLines, MaxBiscuit)
    /\ req_objective \in Objectives
    /\ req_adjusted = <<>>
    /\ req_view = <<>>
    /\ req_pc = "new"
    /\ req_cache = EmptyCache
    /\ IdleSet
    /\ IdleYaml
    /\ IdleConv
    /\ IdleInv

\* a read of the adjusted_valid property
ReadAdjustedValid ==
    /\ req_pc \in {"new", "realized", "failed"}
    /\ req_view' = <<AdjustedValid(req_adjusted, req_valid, req_biscuit)>>
    /\ UNCHANGED <<req_valid, req_biscuit, req_objective, req_adjusted, req_pc,
                   req_cache>>
    /\ UNCHANGED <<setVars, yamlVars, convVars, invVars>>

\* realize(cookie_sets): the attribute is set at line 257, before the test of
\* lines 263-267 may raise
Realize ==
    /\ req_pc = "new"
    /\ \E cookie_sets \in CookieSets :
          LET collapsed ==
                  CollapseLoop(<<>>,
                               ConvertAll(AdjustedValid(req_adjusted, req_valid,
                                                        req_biscuit),
                                          cookie_sets))
              floor_reqs == Cached(req_cache, <<"floor_reqs">>, collapsed)
              ceiling_reqs == Cached(req_cache, <<"ceiling_reqs">>, collapsed)
          IN  /\ req_adjusted' = <<collapsed>>
              /\ IF Contradiction(collapsed)
                 THEN /\ req_pc' = "failed"
                      /\ UNCHANGED <<req_objective, req_cache>>
                 ELSE /\ req_pc' = "realized"
                      /\ req_objective' =
                            TightenBounds(req_objective, floor_reqs, ceiling_reqs)
                      /\ req_cache' =
                            IF req_objective.special
                            THEN Remember(Remember(req_cache, <<"floor_reqs">>,
                                                   floor_reqs),
                                          <<"ceiling_reqs">>, ceiling_reqs)
                            ELSE req_cache
    /\ UNCHANGED <<req_valid, req_biscuit, req_view>>
    /\ UNCHANGED <<setVars, yamlVars, convVars, invVars>>

NextReq ==
    \/ ReadAdjustedValid
    \/ Realize

SpecReq == InitReq /\ [][NextReq]_vars

----------------------------------------------------------------------------
(* A Requirements instance whose accessors are called around realize *)

\* the lines whose op and target the accessors read before realize
NormalLines == {line \in ValidLines : line.kind = "Normal"}

InitCache ==
    /\ req_valid \in SeqsUpTo(NormalLines, MaxValid)
    /\ req_biscuit \in SeqsUpTo(BiscuitLines, MaxBiscuit)
    /\ req_objective \in Objectives
    /\ req_adjusted = <<>>
    /\ req_view = <<>>
    /\ req_pc = "new"
    /\ req_cache = EmptyCache
    /\ IdleSet
    /\ IdleYaml
    /\ IdleConv
    /\ IdleInv

\* a call of floor_reqs(), ceiling_reqs(), zero_reqs() or floor(substat)
CallAccessor ==
    /\ req_pc \in {"new", "realized"}
    /\ \E call \in AccessorCalls :
          LET value == Cached(req_cache, call,
                              AdjustedValid(req_adjusted, req_valid, req_biscuit))
          IN  req_cache' = Remember(req_cache, call, value)
    /\ UNCHANGED <<req_valid, req_biscuit, req_objective, req_adjusted, req_view,
                   req_pc>>
    /\ UNCHANGED <<setVars, yamlVars, convVars, invVars>>

NextCache ==
    \/ CallAccessor
    \/ Realize

SpecCache == InitCache /\ [][NextCache]_vars

----------------------------------------------------------------------------
(* The collapse of realize on a list of converted constraints *)

InitConv ==
    /\ conv_list \in SeqsUpTo(ConvertedConstraints, MaxConverted)
    /\ conv_out = <<>>
    /\ IdleSet
    /\ IdleYaml
    /\ IdleReq
    /\ IdleInv

\* realize, lines 247-257
CollapseConverted ==
    /\ conv_out = <<>>
    /\ conv_out' = <<CollapseLoop(<<>>, conv_list)>>
    /\ UNCHANGED conv_list
    /\ UNCHANGED <<setVars, yamlVars, reqVars, invVars>>

NextConv == CollapseConverted

SpecConv == InitConv /\ [][NextConv]_vars

----------------------------------------------------------------------------
(* cogs/inventory.py : updateinv and appendinv, as coroutines of one loop *)

\* most invocations of updateinv / appendinv in a run
MaxInvocations == 3

\* the authors of the messages
Users == {"u1", "u2"}

\* the slots SEMAPHORE starts with
SemaphoreSlots == 1

Invocations == 1..MaxInvocations

\* SEMAPHORE.locked()
Locked == SEMAPHORE = 0

\* RUNNING_CPU_TASK.pop(id): the dict afterwards
Pop(tasks, id) == tasks \ {id}

\* RUNNING_CPU_TASK.pop(id) raises KeyError when the id is not a key
PopRaises(tasks, id) == id \notin tasks

InitInv ==
    /\ RUNNING_CPU_TASK = {}
    /\ SEMAPHORE = SemaphoreSlots
    /\ inv_user = [i \in Invocations |-> NoKey]
    /\ inv_pc = [i \in Invocations |-> "idle"]
    /\ debug_pc = "idle"
    /\ IdleSet
    /\ IdleYaml
    /\ IdleReq
    /\ IdleConv

\* updateinv, lines 125-168, up to its first await: no attachment, the user
\* already registered, the queued notice of lines 153-165 (sent before the
\* user is registered), or registration and entry into the semaphore at once
Invoke(i) ==
    /\ inv_pc[i] = "idle"
    /\ \E id \in Users, attached \in BOOLEAN :
          /\ inv_user' = [inv_user EXCEPT ![i] = id]
          /\ IF ~attached
             THEN /\ inv_pc' = [inv_pc EXCEPT ![i] = "no video"]
                  /\ UNCHANGED <<RUNNING_CPU_TASK, SEMAPHORE>>
             ELSE IF id \in RUNNING_CPU_TASK
             THEN /\ inv_pc' = [inv_pc EXCEPT ![i] = "rejected"]
                  /\ UNCHANGED <<RUNNING_CPU_TASK, SEMAPHORE>>
             ELSE IF Locked
             THEN /\ inv_pc' = [inv_pc EXCEPT ![i] = "notice"]
                  /\ UNCHANGED <<RUNNING_CPU_TASK, SEMAPHORE>>
             ELSE /\ RUNNING_CPU_TASK' = RUNNING_CPU_TASK \cup {id}
                  /\ SEMAPHORE' = SEMAPHORE - 1
                  /\ inv_pc' = [inv_pc EXCEPT ![i] = "running"]
    /\ UNCHANGED debug_pc
    /\ UNCHANGED <<setVars, yamlVars, reqVars, convVars>>

\* updateinv, lines 157-168: send_msg returns (or raises), then the user is
\* registered and the coroutine enters the semaphore or waits for it
Register(i) ==
    /\ inv_pc[i] = "notice"
    /\ \E sent \in BOOLEAN :
          IF ~sent
          THEN /\ inv_pc' = [inv_pc EXCEPT ![i] = "raised early"]
               /\ UNCHANGED <<RUNNING_CPU_TASK, SEMAPHORE>>
          ELSE /\ RUNNING_CPU_TASK' = RUNNING_CPU_TASK \cup {inv_user[i]}
               /\ IF Locked
                  THEN /\ inv_pc' = [inv_pc EXCEPT ![i] = "waiting"]
                       /\ UNCHANGED SEMAPHORE
                  ELSE /\ inv_pc' = [inv_pc EXCEPT ![i] = "running"]
                       /\ SEMAPHORE' = SEMAPHORE - 1
    /\ UNCHANGED <<inv_user, debug_pc>>
    /\ UNCHANGED <<setVars, yamlVars, reqVars, convVars>>

\* updateinv, line 168: a waiting coroutine gets the semaphore
Acquire(i) ==
    /\ inv_pc[i] = "waiting"
    /\ ~Locked
    /\ SEMAPHORE' = SEMAPHORE - 1
    /\ inv_pc' = [inv_pc EXCEPT ![i] = "running"]
    /\ UNCHANGED <<RUNNING_CPU_TASK, inv_user, debug_pc>>
    /\ UNCHANGED <<setVars, yamlVars, reqVars, convVars>>

\* updateinv, lines 169-241: the body under the semaphore ends with the
\* toppings saved (pop at line 241), with an empty or failed extraction (pop
\* at line 225), or with an exception of a download, an extraction, a write
\* or a message edit (no pop); the semaphore is released on each
Finish(i) ==
    /\ inv_pc[i] = "running"
    /\ SEMAPHORE' = SEMAPHORE + 1
    /\ \E outcome \in {"saved", "empty", "exception"} :
          IF outcome = "exception"
          THEN /\ inv_pc' = [inv_pc EXCEPT ![i] = "raised"]
               /\ UNCHANGED RUNNING_CPU_TASK
          ELSE IF PopRaises(RUNNING_CPU_TASK, inv_user[i])
          THEN /\ inv_pc' = [inv_pc EXCEPT ![i] = "KeyError"]
               /\ UNCHANGED RUNNING_CPU_TASK
          ELSE /\ inv_pc' = [inv_pc EXCEPT ![i] = outcome]
               /\ RUNNING_CPU_TASK' = Pop(RUNNING_CPU_TASK, inv_user[i])
    /\ UNCHANGED <<inv_user, debug_pc>>
    /\ UNCHANGED <<setVars, yamlVars, reqVars, convVars>>

\* debug, line 272: the admin's command enters the semaphore
DebugBegin ==
    /\ debug_pc = "idle"
    /\ ~Locked
    /\ SEMAPHORE' = SEMAPHORE - 1
    /\ debug_pc' = "running"
    /\ UNCHANGED <<RUNNING_CPU_TASK, inv_user, inv_pc>>
    /\ UNCHANGED <<setVars, yamlVars, reqVars, convVars>>

\* debug, lines 272-345: the command leaves the semaphore
DebugEnd ==
    /\ debug_pc = "running"
    /\ SEMAPHORE' = SEMAPHORE + 1
    /\ debug_pc' = "idle"
    /\ UNCHANGED <<RUNNING_CPU_TASK, inv_user, inv_pc>>
    /\ UNCHANGED <<setVars, yamlVars, reqVars, convVars>>

NextInv ==
    \/ \E i \in Invocations : Invoke(i)
    \/ \E i \in Invocations : Register(i)
    \/ \E i \in Invocations : Acquire(i)
    \/ \E i \in Invocations : Finish(i)
    \/ DebugBegin
    \/ DebugEnd

SpecInv == InitInv /\ [][NextInv]_vars

----------------------------------------------------------------------------
(* C4 *)

\* the names of the cookies written before position k of the document
EarlierNames(doc, k) == {doc.cookies[j].name : j \in 1..(k - 1)}

\* the requirement lines of cookie k that name a cookie not written before it
UnresolvedRelative(doc, k) ==
    {m \in DOMAIN doc.cookies[k].requirements :
        LET line == doc.cookies[k].requirements[m] IN
            /\ line.isstr
            /\ line.form = "relative"
            /\ line.cookie \notin EarlierNames(doc, k)}

\* line m of cookie k is a constraint line of one of the four forms, or the
\* cookie's first objective clause and a well-formed one
SoundLine(doc, k, m) ==
    LET lines == doc.cookies[k].requirements
        line == lines[m]
    IN  IF line.isstr THEN line.form # "bad"
        ELSE /\ \A n \in 1..(m - 1) : lines[n].isstr
             /\ line.max \in TypeValues
             /\ line.max = "Combo" =>
                   /\ line.has_substats
                   /\ line.substats # <<>>
                   /\ \A i \in DOMAIN line.substats : line.substats[i] \in TypeValues

\* from_yaml has gone through cookie k of the document
Processed(k) == k <= Len(cookies) \/ (pc = "raised" /\ k = Len(cookies) + 1)

\* the constraint lines of a cookie block, parsed, in their order
RECURSIVE ParsedConstraints(_)
ParsedConstraints(lines) ==
    IF lines = <<>> THEN <<>>
    ELSE IF Head(lines).isstr
         THEN <<ParseValidRequirement(Head(lines))>> \o ParsedConstraints(Tail(lines))
         ELSE ParsedConstraints(Tail(lines))

----------------------------------------------------------------------------
(* C6 *)

\* sum of the values of the lines at the indices `idx`
ValueSum(lines, idx) == SumOver(idx, [i \in idx |-> lines[i].value])

\* the sum of a stat's baseline values
BaselineSum(stat) ==
    IF stat \in DOMAIN DEFAULT_MODIFIERS
    THEN ValueSum(DEFAULT_MODIFIERS[stat], DOMAIN DEFAULT_MODIFIERS[stat])
    ELSE 0

\* the sum of a stat's declared values in a modifiers section
DeclaredSum(modifiers, stat) ==
    IF stat \in DOMAIN modifiers
    THEN ValueSum(modifiers[stat], DOMAIN modifiers[stat])
    ELSE 0

\* the sum of a stat's declared values whose source is no baseline source
NonDuplicateSum(modifiers, stat) ==
    IF stat \in DOMAIN modifiers
    THEN ValueSum(modifiers[stat],
                  {i \in DOMAIN modifiers[stat] :
                      modifiers[stat][i].source \notin DefaultSources(stat)})
    ELSE 0

\* C6: the output of sanitize holds no modifier line whose source is a
\* baseline source name of its stat, and from_yaml on it yields, per stat, the
\* baseline sum plus the sum of the non-duplicate declared lines
C6_NoBaselineDuplicate ==
    tmp # <<>> =>
        /\ \A stat \in DOMAIN tmp[1].modifiers :
              \A i \in DOMAIN tmp[1].modifiers[stat] :
                  tmp[1].modifiers[stat][i].source \notin DefaultSources(stat)
        /\ loaded # <<>> =>
              \A stat \in (DOMAIN DEFAULT_MODIFIERS) \cup (DOMAIN document.modifiers) :
                  ModGet(mods, stat)
                      = BaselineSum(stat) + NonDuplicateSum(document.modifiers, stat)

----------------------------------------------------------------------------
(* C7 *)

\* the Requirements built from a document without modifiers whose objective
\* is Combo over [ATK, CRIT%]
ComboOfPlainDocument ==
    IF loaded # <<>> /\ DOMAIN loaded[1].modifiers = {}
    THEN {r \in SeqRange(cookies) :
             r.objective.type = "Combo" /\ r.objective.types = <<"ATK", "CRIT%">>}
    ELSE {}

\* C7 as claimed: the Combo objective's modifier vector gives ATK 100 and CRIT% 5
C7_ComboWeightsAsClaimed ==
    \A r \in ComboOfPlainDocument :
        r.objective.mods["ATK"] = 100 /\ r.objective.mods["CRIT%"] = 5

\* C7 as amended: the Combo objective's modifier vector gives ATK 100 and
\* CRIT% 13, the sum of the two built-in CRIT% entries (5 and 8)
C7_ComboWeights ==
    \A r \in ComboOfPlainDocument :
        r.objective.mods["ATK"] = 100 /\ r.objective.mods["CRIT%"] = 13

C7_Witness ==
    /\ pc = "done"
    /\ ComboOfPlainDocument # {}
    /\ \E r \in ComboOfPlainDocument : r.objective.mods["CRIT%"] = 13

----------------------------------------------------------------------------
(* C8 *)

\* the orderings of a list
Perms(lines) ==
    {[i \in DOMAIN lines |-> lines[p[i]]] : p \in Permutations(DOMAIN lines)}

\* a modifiers section with each stat's declared lines reordered
ReorderedModifiers(modifiers) ==
    {m \in [DOMAIN modifiers -> UNION {Perms(modifiers[s]) : s \in DOMAIN modifiers}] :
        \A s \in DOMAIN modifiers : m[s] \in Perms(modifiers[s])}

\* C8: the mapping built by from_yaml holds, for every stat of the baseline
\* table or of the declared modifiers, the baseline sum plus the declared sum
\* of that stat alone, whatever the order of the declared lines
C8_ModifierAccumulation ==
    loaded # <<>> =>
        /\ DOMAIN mods = (DOMAIN DEFAULT_MODIFIERS) \cup (DOMAIN loaded[1].modifiers)
        /\ \A stat \in DOMAIN mods :
              mods[stat] = BaselineSum(stat) + DeclaredSum(loaded[1].modifiers, stat)
        /\ \A m \in ReorderedModifiers(loaded[1].modifiers) : AccumulateMods(m) = mods

C8_Witness ==
    /\ loaded # <<>>
    /\ tmp = <<>>
    /\ loaded[1].modifiers = [s \in {"ATK", "ATK SPD"} |->
                                 <<ModLine("Guild Buff", 10), ModLine("Base", 100)>>]
    /\ mods["ATK"] = 210
    /\ mods["ATK SPD"] = 110
    /\ mods["CRIT%"] = 13

----------------------------------------------------------------------------
(* C9 *)

\* C9: after compilation the modifier vector of every cookie, one with an
\* E[DMG] or Vitality objective and override deltas included, still equals the
\* document-level accumulated totals
C9_OverrideIsolation ==
    \A i \in DOMAIN cookies : cookies[i].mods = mods

----------------------------------------------------------------------------
(* C2 and C3 *)

\* the sum of the biscuit targets of a stat
BiscuitTotal(biscuit, stat) ==
    LET idx == {i \in DOMAIN biscuit : biscuit[i].substat = stat}
    IN  SumOver(idx, [i \in idx |-> biscuit[i].target])

\* max(0, target - biscuit total of the stat)
OffsetTarget(target, stat) == Max2(0, target - BiscuitTotal(req_biscuit, stat))

\* the lower bounds the cookie's lines put on a stat, after the offset
LowerBounds(stat) ==
    {OffsetTarget(l.target, stat) :
        l \in {x \in SeqRange(req_valid) :
                  /\ x.substat = stat
                  /\ \/ x.kind = "Equality"
                     \/ (x.kind = "Normal" /\ x.op = ">=")}}
    \cup {OffsetTarget(l.low_target, stat) :
            l \in {x \in SeqRange(req_valid) : x.substat = stat /\ x.kind = "Range"}}

\* the upper bounds the cookie's lines put on a stat, after the offset
UpperBounds(stat) ==
    {OffsetTarget(l.target, stat) :
        l \in {x \in SeqRange(req_valid) :
                  /\ x.substat = stat
                  /\ \/ x.kind = "Equality"
                     \/ (x.kind = "Normal" /\ x.op = "<=")}}
    \cup {OffsetTarget(l.high_target, stat) :
            l \in {x \in SeqRange(req_valid) : x.substat = stat /\ x.kind = "Range"}}

\* C2: a cookie with a lower and an upper bound on one stat fails realize()
\* when some lower bound exceeds an upper bound of its stat after the offset,
\* and realizes when none does
C2_ContradictionDetected ==
    (/\ req_pc \in {"realized", "failed"}
     /\ \E stat \in ReqStats : LowerBounds(stat) # {} /\ UpperBounds(stat) # {})
    => (req_pc = "failed"
           <=> \E stat \in ReqStats :
                  \E lo \in LowerBounds(stat) : \E hi \in UpperBounds(stat) : lo > hi)

\* a validity line with its targets offset by the biscuit total of its stat
ExpectedAdjusted(line) ==
    CASE line.kind = "Range" ->
            [line EXCEPT !.low_target = OffsetTarget(@, line.substat),
                         !.high_target = OffsetTarget(@, line.substat)]
      [] line.kind \in {"Equality", "Normal"} ->
            [line EXCEPT !.target = OffsetTarget(@, line.substat)]
      [] OTHER -> line

\* C3: before realize(), adjusted_valid holds one entry for every line of
\* valid, with each target max(0, target - biscuit total), never negative
C3_BiscuitOffset ==
    (req_pc = "new" /\ req_view # <<>>) =>
        /\ \A i \in DOMAIN req_valid :
              ExpectedAdjusted(req_valid[i]) \in SeqRange(req_view[1])
        /\ \A i \in DOMAIN req_view[1] :
              \E j \in DOMAIN req_valid : req_view[1][i] = ExpectedAdjusted(req_valid[j])
        /\ \A i \in DOMAIN req_view[1] :
              LET line == req_view[1][i] IN
                 CASE line.kind = "Range" -> line.low_target >= 0 /\ line.high_target >= 0
                   [] line.kind \in {"Equality", "Normal"} -> line.target >= 0
                   [] OTHER -> TRUE

----------------------------------------------------------------------------
(* C10 *)

\* the (stat, direction) pair of a constraint
KeyOf(c) == <<c.substat, c.op>>

\* the fuzzed constraints of the list handed to the collapse
FuzzedInput == {Fuzz(conv_list[i]) : i \in DOMAIN conv_list}

\* the tightest target among the constraints of `S` with the key `key`
TightestTarget(S, key) ==
    LET targets == {c.target : c \in {x \in S : KeyOf(x) = key}}
    IN  IF key[2] = ">="
        THEN CHOOSE t \in targets : \A u \in targets : u <= t
        ELSE CHOOSE t \in targets : \A u \in targets : t <= u

\* C10: the collapsed list holds exactly one constraint for every (stat,
\* direction) pair of the input, the one with the tightest target; it holds
\* the same constraints for every ordering of the input, and collapsing it
\* again returns it unchanged
C10_Collapse ==
    conv_out # <<>> =>
        LET out == conv_out[1] IN
        /\ \A i, j \in DOMAIN out : i # j => KeyOf(out[i]) # KeyOf(out[j])
        /\ {KeyOf(c) : c \in SeqRange(out)} = {KeyOf(c) : c \in FuzzedInput}
        /\ \A c \in SeqRange(out) :
              c \in FuzzedInput /\ c.target = TightestTarget(FuzzedInput, KeyOf(c))
        /\ \A p \in Perms(conv_list) :
              SeqRange(CollapseLoop(<<>>, p)) = SeqRange(out)
        /\ CollapseOnly(<<>>, out) = out

\* two floors and a ceiling on ATK and a floor on CRIT%: the larger floor is kept
C10_Witness ==
    /\ conv_list = <<Bound("ATK", ">=", 30), Bound("ATK", ">=", 50),
                     Bound("ATK", "<=", 50)>>
    /\ conv_out = << <<Bound("ATK", ">=", 49), Bound("ATK", "<=", 51)>> >>

----------------------------------------------------------------------------
(* C1 *)

\* every way to fill the free slots of the partial set
Completions(toppings) == [1..(SetSize - Len(toppings)) -> ToppingFlavors]

\* C1: the bound computed on a partial set is at least the set-bonus value of
\* every completion of it to five toppings
C1_Admissible ==
    \A ext \in Completions(combo) :
        BestPossibleSetEffect(combo, substats, SetSize - Len(combo))
            >= SetBonusValue(combo \o ext, substats)

----------------------------------------------------------------------------
(* C5 *)

\* the tiers of a schedule whose threshold is met
MetTiers(schedule, count) == {t \in SeqRange(schedule) : t[1] <= count}

\* the met tier with the highest threshold, (0, 0) when none is met
HighestMetTier(schedule, count) ==
    IF MetTiers(schedule, count) = {} THEN <<0, 0>>
    ELSE CHOOSE t \in MetTiers(schedule, count) :
            \A u \in MetTiers(schedule, count) : u[1] <= t[1]

\* C5: set_effect returns the highest tier whose threshold the number of
\* members of that primary stat meets, (0, 0) below the lowest threshold, and
\* (3, 7) for three members under the schedule [(2,3),(3,7),(5,8),(6,10)]
C5_SetEffectTiering ==
    /\ \A s \in DOMAIN INFO :
          SetEffect(combo, s) = HighestMetTier(INFO[s], MatchingCount(combo, s))
    /\ \A s \in DOMAIN INFO :
          (/\ INFO[s] = << <<2, 3>>, <<3, 7>>, <<5, 8>>, <<6, 10>> >>
           /\ MatchingCount(combo, s) = 3) => SetEffect(combo, s) = <<3, 7>>

C5_Witness ==
    /\ Len(combo) = SetSize
    /\ MatchingCount(combo, "DMG Resist") = 3
    /\ SetEffect(combo, "DMG Resist") = <<3, 7>>
    /\ MatchingCount(combo, "ATK") = 1
    /\ SetEffect(combo, "ATK") = <<0, 0>>

----------------------------------------------------------------------------
(* C11 *)

\* the step in which realize returns without raising
RealizeReturns == req_pc = "new" /\ req_pc' = "realized"

\* some constraint of the realized list on the stat, of the direction, with
\* the target, that the tightening loops go through
TightenedBy(entries, substat, op, target) ==
    \E i \in DOMAIN entries :
        /\ entries[i].substat = substat
        /\ entries[i].op = op
        /\ entries[i].target = target
        /\ (op = "<=" => target # 0)

\* C11: when realize returns for a cookie with a Special objective, for every
\* stat tracked in objective.bounds the interval [min, max] after is contained
\* in the interval before, a changed min is the target of a ">=" constraint
\* and a changed max is the target of a "<=" constraint whose target is not 0
C11_BoundsOnlyTightened ==
    [][(RealizeReturns /\ req_objective.special) =>
          \A st \in DOMAIN req_objective.bounds :
              LET before == req_objective.bounds[st]
                  after == req_objective'.bounds[st]
              IN  /\ before.min <= after.min
                  /\ after.max <= before.max
                  /\ after.min # before.min =>
                        TightenedBy(req_adjusted'[1], st, ">=", after.min)
                  /\ after.max # before.max =>
                        TightenedBy(req_adjusted'[1], st, "<=", after.max)]_vars

\* the part of C11 on which constraints move which bound
C11_OnlyMatchingConstraints ==
    [][(RealizeReturns /\ req_objective.special) =>
          \A st \in DOMAIN req_objective.bounds :
              LET before == req_objective.bounds[st]
                  after == req_objective'.bounds[st]
              IN  /\ after.min <= before.min
                  /\ after.max <= before.max
                  /\ after.min # before.min =>
                        TightenedBy(req_adjusted'[1], st, ">=", after.min)
                  /\ after.max # before.max =>
                        TightenedBy(req_adjusted'[1], st, "<=", after.max)]_vars

----------------------------------------------------------------------------
(* C12 *)

\* the values a stat of a candidate set takes, around the targets in use
StatValues == {0, 9, 10, 11, 29, 30, 31, 49, 50, 51}

\* the stat assignments
Assignments == [ReqStats -> StatValues]

\* whether a value of the line's stat meets the line
Meets(value, line, cookie_sets) ==
    CASE line.kind = "Range" -> line.low_target <= value /\ value <= line.high_target
      [] line.kind = "Equality" -> value = line.target
      [] line.kind = "Relative" ->
            IF line.op = ">=" THEN value >= cookie_sets[line.cookie]
            ELSE value <= cookie_sets[line.cookie]
      [] OTHER ->
            IF line.op = ">=" THEN value >= line.target ELSE value <= line.target

\* the assignments that meet every line of a value of adjusted_valid
Region(lines, cookie_sets) ==
    {a \in Assignments :
        \A i \in DOMAIN lines : Meets(a[lines[i].substat], lines[i], cookie_sets)}

\* the cookie without its last requirement line
WithoutExtra == SubSeq(req_valid, 1, Len(req_valid) - 1)

\* C12: the assignments that satisfy adjusted_valid of a cookie are among
\* those that satisfy adjusted_valid of the same cookie without its last
\* line, for the value read before realize() and for the realized value
C12_Monotone ==
    \A cookie_sets \in CookieSets :
        /\ (req_valid # <<>> /\ req_pc = "new" /\ req_view # <<>>) =>
              Region(req_view[1], cookie_sets) \subseteq
                  Region(AdjustedValid(<<>>, WithoutExtra, req_biscuit), cookie_sets)
        /\ (req_valid # <<>> /\ req_pc = "realized") =>
              Region(req_adjusted[1], cookie_sets) \subseteq
                  Region(CollapseLoop(<<>>,
                             ConvertAll(AdjustedValid(<<>>, WithoutExtra, req_biscuit),
                                        cookie_sets)),
                         cookie_sets)

----------------------------------------------------------------------------
(* C13, C14 and C15 *)

\* the objective mappings among the requirements of cookie k
ObjectiveClauses(doc, k) ==
    {m \in DOMAIN doc.cookies[k].requirements : ~doc.cookies[k].requirements[m].isstr}

\* from_yaml raised while going through cookie k
RaisedAt(k) == pc = "raised" /\ k = Len(cookies) + 1

\* C13: a cookie without an objective mapping, and a cookie with two or more,
\* make from_yaml raise an error that names the cookie, and every Requirements
\* built comes from a cookie with exactly one objective mapping and holds an
\* objective
C13_ExactlyOneObjective ==
    loaded # <<>> =>
        \A k \in DOMAIN loaded[1].cookies :
            /\ k <= Len(cookies) =>
                  /\ Cardinality(ObjectiveClauses(loaded[1], k)) = 1
                  /\ cookies[k].objective.type # NoKey
            /\ (Processed(k) /\ Cardinality(ObjectiveClauses(loaded[1], k)) # 1) =>
                  /\ RaisedAt(k)
                  /\ error.cookie = loaded[1].cookies[k].name

\* the part of C13 on the Requirements that are built
C13_BuiltHaveOneObjective ==
    loaded # <<>> =>
        \A k \in DOMAIN cookies :
            /\ Cardinality(ObjectiveClauses(loaded[1], k)) = 1
            /\ cookies[k].objective.type # NoKey

\* the clauses `max: Combo` of cookie k without the substats key, or with an
\* empty substats list
MalformedCombo(doc, k) ==
    {m \in ObjectiveClauses(doc, k) :
        LET clause == doc.cookies[k].requirements[m] IN
            /\ clause.max = "Combo"
            /\ ~clause.has_substats \/ clause.substats = <<>>}

\* C14: a cookie whose objective clause is a Combo without substats, or with
\* an empty list of them, makes from_yaml raise an error that names the
\* cookie, the malformed-objective error when the clause is the first thing
\* wrong with the cookie, and no Requirements is built for the cookie
C14_MalformedCombo ==
    loaded # <<>> =>
        \A k \in DOMAIN loaded[1].cookies :
            (Processed(k) /\ MalformedCombo(loaded[1], k) # {}) =>
                /\ RaisedAt(k)
                /\ error.cookie = loaded[1].cookies[k].name
                /\ (\E m \in MalformedCombo(loaded[1], k) :
                       \A n \in 1..(m - 1) :
                           /\ loaded[1].cookies[k].requirements[n].isstr
                           /\ SoundLine(loaded[1], k, n)
                           /\ n \notin UnresolvedRelative(loaded[1], k))
                      => error = CookieError("Combo substats", loaded[1].cookies[k].name)

\* the part of C14 on the Requirements: none is built for such a cookie
C14_NoneBuilt ==
    loaded # <<>> =>
        \A k \in DOMAIN cookies : MalformedCombo(loaded[1], k) = {}

\* cookie k is valid by itself: every line sound, one objective clause, and no
\* line that names another cookie
SelfContained(doc, k) ==
    /\ Cardinality(ObjectiveClauses(doc, k)) = 1
    /\ \A m \in DOMAIN doc.cookies[k].requirements :
          /\ SoundLine(doc, k, m)
          /\ doc.cookies[k].requirements[m].isstr =>
                doc.cookies[k].requirements[m].form # "relative"

\* C15: when from_yaml ends, it has gone through every cookie of the document,
\* and every cookie that is valid by itself has its Requirements among the
\* ones built
C15_ErrorIsolation ==
    pc \in {"raised", "done"} =>
        \A k \in DOMAIN loaded[1].cookies :
            /\ Processed(k)
            /\ SelfContained(loaded[1], k) =>
                  \E i \in DOMAIN cookies : cookies[i].name = loaded[1].cookies[k].name

\* the part of C15 on the failing cookie: it has no Requirements of its own
C15_FailedYieldsNone ==
    pc = "raised" => Len(cookies) < Len(loaded[1].cookies)

----------------------------------------------------------------------------
(* C16 and C18 *)

\* the invocations of a user between registering the user and removing it
Holding(id) ==
    {i \in Invocations : inv_user[i] = id /\ inv_pc[i] \in {"waiting", "running"}}

\* C16: at any time at most one invocation of a user is queued or running,
\* that is between registering the user in RUNNING_CPU_TASK and removing it,
\* and no removal fails because the entry is already gone
C16_PerUserExclusion ==
    /\ \A id \in Users : Cardinality(Holding(id)) <= 1
    /\ \A i \in Invocations : inv_pc[i] # "KeyError"

\* the part of C16 on an invocation that finds the user registered
C16_RegisteredIsRejected ==
    [][\A i \in Invocations :
          (inv_pc[i] = "idle" /\ inv_pc'[i] # "idle" /\ inv_pc'[i] # "no video"
             /\ inv_user'[i] \in RUNNING_CPU_TASK)
          => inv_pc'[i] = "rejected"]_vars

\* C18: a user of whom no invocation is queued or running is not in
\* RUNNING_CPU_TASK, whichever way the user's invocations ended, and the
\* semaphore holds every slot that no running command occupies
C18_SlotReleased ==
    /\ \A id \in Users : Holding(id) = {} => id \notin RUNNING_CPU_TASK
    /\ SEMAPHORE = SemaphoreSlots
                     - Cardinality({i \in Invocations : inv_pc[i] = "running"})
                     - (IF debug_pc = "running" THEN 1 ELSE 0)

\* the part of C18 on the semaphore
C18_SemaphoreReleased ==
    SEMAPHORE = SemaphoreSlots
                  - Cardinality({i \in Invocations : inv_pc[i] = "running"})
                  - (IF debug_pc = "running" THEN 1 ELSE 0)

----------------------------------------------------------------------------
(* C17 *)

\* the value of adjusted_valid a read would give now
CurrentAdjusted == AdjustedValid(req_adjusted, req_valid, req_biscuit)

\* C17: a call of floor(stat), floor_reqs(), ceiling_reqs() or zero_reqs()
\* returns the value derived from the cookie's current adjusted_valid,
\* before realize() and after it, whichever calls came earlier
C17_ViewsTrackAdjusted ==
    req_pc \in {"new", "realized"} =>
        \A call \in AccessorCalls :
            Cached(req_cache, call, CurrentAdjusted) =
                AccessorBody(call, CurrentAdjusted)

\* the part of C17 before realize(): every call gives the derived value
C17_FreshBeforeRealize ==
    req_pc = "new" =>
        \A call \in AccessorCalls :
            Cached(req_cache, call, CurrentAdjusted) =
                AccessorBody(call, CurrentAdjusted)

----------------------------------------------------------------------------
(* C19 *)

\* C19: after realize() has returned for a cookie with a Special objective,
\* min <= max holds of every stat tracked in objective.bounds (as it does
\* before realize())
C19_BoundsWellFormed ==
    (req_pc = "realized" /\ req_objective.special) =>
        \A st \in DOMAIN req_objective.bounds :
            req_objective.bounds[st].min <= req_objective.bounds[st].max

\* the precondition of C19: the bounds are well-formed before realize()
C19_WellFormedBefore ==
    (req_pc = "new" /\ req_objective.special) =>
        \A st \in DOMAIN req_objective.bounds :
            req_objective.bounds[st].min <= req_objective.bounds[st].max

=============================================================================
